---- MODULE Spec2Model ----
(***************************************************************************)
(* Model of the RoastLink TWO (ESP32-S3) flasher build, two/update/index.js *)
(* The module models class ESPLoader: its three fields and its four async   *)
(* methods.  Each method runs synchronously up to its single `await`, where *)
(* it has already invoked the underlying operation (a method of the chip,   *)
(* or HardReset.perform); the awaited promise is settled by the             *)
(* environment, and the method's continuation then fulfils or rejects the   *)
(* promise the caller holds.                                                *)
(***************************************************************************)
EXTENDS Integers, Sequences, FiniteSets

\* ---- bounds -------------------------------------------------------------
MaxCalls == 2          \* number of method calls made on the loader
MaxLen == 3            \* longest image handed to flashData
BlockSize == 2         \* flash block size of the modelled target (model scale)

\* ---- input domains ------------------------------------------------------
Ports == {"port#1"}      \* the port is opaque to the loader: it is stored and handed on, never inspected
Bytes == {165}
Offsets == {4096}
EraseLengths == {MaxLen}
Errors == {"Timeout", "TransportError"}

RECURSIVE SeqsUpTo(_)
SeqsUpTo(n) ==
  IF n = 0 THEN {<<>>}
  ELSE LET shorter == SeqsUpTo(n - 1)
       IN  shorter \cup {Append(s, b) : s \in {t \in shorter : Len(t) = n - 1}, b \in Bytes}

Images == SeqsUpTo(MaxLen)

\* actual argument lists a caller may pass
EraseArgs == {<<>>} \cup {<<o, l>> : o \in Offsets, l \in EraseLengths}
FlashArgs ==
  {<<d>> : d \in Images}
    \cup {<<d, o>> : d \in Images, o \in Offsets}
    \cup {<<d, o, c>> : d \in Images, o \in Offsets, c \in BOOLEAN}

\* ---- state --------------------------------------------------------------
VARIABLES
  port,        \* this.port
  transport,   \* this.transport, the Transport made by the constructor
  chip,        \* this.chip, the ESP32S3ROM made by the constructor
  calls,       \* the method calls made so far, in the order they were made
  chipLog,     \* the methods invoked on a chip object, in invocation order
  resetLog     \* the HardReset objects constructed and performed

vars == <<port, transport, chip, calls, chipLog, resetLog>>

\* `new Transport(port)` and `new ESP32S3ROM(transport)`
NewTransport(p) == [id |-> "transport#1", port |-> p]
NewChip(t) == [id |-> "chip#1", transport |-> t.id]

\* constructor(port)
Init ==
  /\ port \in Ports
  /\ transport = NewTransport(port)
  /\ chip = NewChip(transport)
  /\ calls = <<>>
  /\ chipLog = <<>>
  /\ resetLog = <<>>

Pending == [status |-> "pending", error |-> "none", value |-> "none"]

\* a call suspended at its await, the awaited promise not yet settled
Suspended(op, args) ==
  [op |-> op, args |-> args, pc |-> "await", outcome |-> Pending, result |-> Pending]

\* an invocation of chip.<cmd>(args) made by call number caller
ChipCall(cmd, args, caller) ==
  [cmd |-> cmd, args |-> args, chip |-> chip.id, caller |-> caller]

\* default parameter values of flashData(data, offset = 0x10000, compress = true)
DefaultOffset == 65536
DefaultCompress == TRUE
\* variant: defaults applied with `||`, so a falsy argument is replaced too
FlashDataParamsFalsy(args) ==
  << args[1],
     IF Len(args) >= 2 /\ args[2] # 0 THEN args[2] ELSE DefaultOffset,
     IF Len(args) >= 3 /\ args[3] THEN args[3] ELSE DefaultCompress >>

FlashDataParams(args) ==
  << args[1],
     IF Len(args) >= 2 THEN args[2] ELSE DefaultOffset,
     IF Len(args) >= 3 THEN args[3] ELSE DefaultCompress >>

\* async initialize(): await this.chip.sync()
initialize ==
  /\ Len(calls) < MaxCalls
  /\ calls' = Append(calls, Suspended("initialize", <<>>))
  /\ chipLog' = Append(chipLog, ChipCall("sync", <<>>, Len(calls) + 1))
  /\ UNCHANGED <<port, transport, chip, resetLog>>

\* async eraseFlash(): await this.chip.flash_begin()
\* The method declares no parameters; whatever the caller passes is dropped.
eraseFlash ==
  /\ Len(calls) < MaxCalls
  /\ \E args \in EraseArgs :
       calls' = Append(calls, Suspended("eraseFlash", args))
  /\ chipLog' = Append(chipLog, ChipCall("flash_begin", <<>>, Len(calls) + 1))
  /\ UNCHANGED <<port, transport, chip, resetLog>>

\* async flashData(data, offset, compress): await this.chip.flash_data(...)
flashData ==
  /\ Len(calls) < MaxCalls
  /\ \E args \in FlashArgs :
       /\ calls' = Append(calls, Suspended("flashData", args))
       /\ chipLog' = Append(chipLog,
                        ChipCall("flash_data", FlashDataParams(args), Len(calls) + 1))
  /\ UNCHANGED <<port, transport, chip, resetLog>>

\* variant: the reset is bound to a transport of its own, `new Transport(this.port)`
NewHardResetOwnTransport(t, caller) ==
  [id |-> Len(resetLog) + 1, transport |-> "transport#2", caller |-> caller]

\* `new HardReset(this.transport)`
NewHardReset(t, caller) ==
  [id |-> Len(resetLog) + 1, transport |-> t.id, caller |-> caller]

\* variant: the reset path resynchronises the chip before pulsing the lines
hardResetWithSync ==
  /\ Len(calls) < MaxCalls
  /\ calls' = Append(calls, Suspended("hardReset", <<>>))
  /\ resetLog' = Append(resetLog, NewHardReset(transport, Len(calls) + 1))
  /\ chipLog' = Append(chipLog, ChipCall("sync", <<>>, Len(calls) + 1))
  /\ UNCHANGED <<port, transport, chip>>

\* async hardReset(): const reset = new HardReset(this.transport); await reset.perform()
hardReset ==
  /\ Len(calls) < MaxCalls
  /\ calls' = Append(calls, Suspended("hardReset", <<>>))
  /\ resetLog' = Append(resetLog, NewHardReset(transport, Len(calls) + 1))
  /\ UNCHANGED <<port, transport, chip, chipLog>>

\* The promise a suspended call awaits settles: the underlying operation
\* (chip.sync, chip.flash_begin, chip.flash_data, reset.perform) succeeds or
\* fails with an error.
Settle ==
  \E i \in 1..Len(calls) :
    /\ calls[i].pc = "await"
    /\ calls[i].outcome.status = "pending"
    /\ \E o \in {[status |-> "ok", error |-> "none", value |-> "none"]}
                  \cup {[status |-> "err", error |-> e, value |-> "none"] : e \in Errors} :
         calls' = [calls EXCEPT ![i].outcome = o]
    /\ UNCHANGED <<port, transport, chip, chipLog, resetLog>>

\* variant: the await sits in a try/catch that only logs the error
AwaitResultSwallow(op, outcome) ==
  [status |-> "fulfilled", error |-> "none",
   value |-> IF op = "initialize" THEN chip.id ELSE "undefined"]

\* What the caller's promise becomes once the awaited promise has settled:
\* a rejection propagates out of the async method unchanged; otherwise
\* initialize runs `return this.chip` and the others fall off the end.
AwaitResult(op, outcome) ==
  IF outcome.status = "err"
  THEN [status |-> "rejected", error |-> outcome.error, value |-> "none"]
  ELSE [status |-> "fulfilled", error |-> "none",
        value |-> IF op = "initialize" THEN chip.id ELSE "undefined"]

\* The continuation of a call after its await.
Resume ==
  \E i \in 1..Len(calls) :
    /\ calls[i].pc = "await"
    /\ calls[i].outcome.status # "pending"
    /\ calls' = [calls EXCEPT ![i].pc = "done",
                              ![i].result = AwaitResult(calls[i].op, calls[i].outcome)]
    /\ UNCHANGED <<port, transport, chip, chipLog, resetLog>>

Next ==
  \/ initialize
  \/ eraseFlash
  \/ flashData
  \/ hardReset
  \/ Settle
  \/ Resume

Spec == Init /\ [][Next]_vars

\* ---- vocabulary of the properties ----------------------------------------
CallIds == 1..Len(calls)
LogIds == 1..Len(chipLog)
ResetIds == 1..Len(resetLog)
SessionOps == {"initialize", "eraseFlash", "flashData"}
FlashOps == {"eraseFlash", "flashData"}

CeilDiv(n, d) == (n + d - 1) \div d

\* some initialize() has completed successfully
InitCompleted ==
  \E i \in CallIds : calls[i].op = "initialize" /\ calls[i].result.status = "fulfilled"

\* some operation has failed with a transport error
TransportFailed ==
  \E i \in CallIds :
    calls[i].result.status = "rejected" /\ calls[i].result.error = "TransportError"

\* the step makes a new call of one of the operations in ops
Starts(ops) ==
  /\ Len(calls') = Len(calls) + 1
  /\ calls'[Len(calls')].op \in ops

\* the commands a call has issued to the chip
CommandsOf(i, cmd) == {k \in LogIds : chipLog[k].caller = i /\ chipLog[k].cmd = cmd}

\* ---- C1 -------------------------------------------------------------------
\* C1: a call of eraseFlash or flashData made while no initialize() has
\* completed successfully is rejected at once and issues no command to the chip.
C1_FlashGuarded ==
  [][ (~InitCompleted /\ Starts(FlashOps))
        => /\ chipLog' = chipLog
           /\ calls'[Len(calls')].result.status = "rejected" ]_vars

\* ---- C2 -------------------------------------------------------------------
\* C2: every flash_data a write issues is preceded by a flash_begin of the same
\* write, and a write that has returned success has issued flash_end after its
\* last flash_data.
C2_BeginDataEnd ==
  /\ \A k \in LogIds :
       chipLog[k].cmd = "flash_data"
         => \E j \in 1..(k - 1) :
              chipLog[j].cmd = "flash_begin" /\ chipLog[j].caller = chipLog[k].caller
  /\ \A i \in CallIds :
       (calls[i].op = "flashData" /\ calls[i].result.status = "fulfilled")
         => \E j \in CommandsOf(i, "flash_end") :
              \A k \in CommandsOf(i, "flash_data") : k < j

\* ---- C3 -------------------------------------------------------------------
\* C3: at most one command issued by initialize, eraseFlash or flashData is in
\* flight (issued and not yet settled) at any time.
InFlight ==
  {i \in CallIds : calls[i].op \in SessionOps /\ calls[i].outcome.status = "pending"}

C3_OneInFlight == Cardinality(InFlight) <= 1

\* ---- C4 -------------------------------------------------------------------
\* C4: once an operation has failed with a transport error, every later call of
\* initialize, eraseFlash or flashData is rejected with SessionClosed and issues
\* no command to the chip.
C4_ClosedRejects ==
  [][ (TransportFailed /\ Starts(SessionOps))
        => /\ chipLog' = chipLog
           /\ calls'[Len(calls')].result.status = "rejected"
           /\ calls'[Len(calls')].result.error = "SessionClosed" ]_vars

\* ---- C5 -------------------------------------------------------------------
\* C5: no operation reports success when its underlying call failed: a call
\* whose underlying operation failed is never fulfilled, once finished it is
\* rejected with that very error, and a failed initialize never yields the chip.
C5_NoSwallow ==
  \A i \in CallIds :
    /\ calls[i].pc # "done" => calls[i].result.status = "pending"
    /\ calls[i].outcome.status = "err"
         => /\ calls[i].result.status # "fulfilled"
            /\ calls[i].result.value # chip.id
            /\ calls[i].pc = "done"
                 => /\ calls[i].result.status = "rejected"
                    /\ calls[i].result.error = calls[i].outcome.error
    /\ calls[i].result.status = "fulfilled" => calls[i].outcome.status = "ok"

\* a failed sync and a failed reset have both been reported to their callers
C5_Witness ==
  /\ \E i \in CallIds :
       /\ calls[i].op = "initialize" /\ calls[i].pc = "done"
       /\ calls[i].outcome.status = "err" /\ calls[i].result.status = "rejected"
  /\ \E j \in CallIds :
       /\ calls[j].op = "hardReset" /\ calls[j].pc = "done"
       /\ calls[j].outcome.status = "err" /\ calls[j].result.status = "rejected"

\* ---- C6 -------------------------------------------------------------------
\* C6: a write of an image of length L that has returned success has issued
\* exactly ceil(L / BlockSize) flash_data commands.
C6_BlockAccounting ==
  \A i \in CallIds :
    (calls[i].op = "flashData" /\ calls[i].result.status = "fulfilled")
      => Cardinality(CommandsOf(i, "flash_data"))
           = CeilDiv(Len(calls[i].args[1]), BlockSize)

\* ---- C7 -------------------------------------------------------------------
\* C7: the flash_begin issued by eraseFlash carries the offset, total size,
\* block count and block size of the region the caller asked to erase.
C7_EraseRegion ==
  \A i \in CallIds :
    (calls[i].op = "eraseFlash" /\ Len(calls[i].args) = 2)
      => \E k \in CommandsOf(i, "flash_begin") :
           chipLog[k].args = << calls[i].args[1], calls[i].args[2],
                                CeilDiv(calls[i].args[2], BlockSize), BlockSize >>

\* ---- C8 -------------------------------------------------------------------
\* C8: hardReset issues no command to the chip, in any state; each hardReset
\* runs exactly one HardReset, and its result is decided by that reset alone.
C8_ResetNoProtocol ==
  /\ \A k \in LogIds : calls[chipLog[k].caller].op # "hardReset"
  /\ Len(chipLog) = Cardinality({i \in CallIds : calls[i].op \in SessionOps})
  /\ \A i \in CallIds :
       calls[i].op = "hardReset"
         => /\ Cardinality({r \in ResetIds : resetLog[r].caller = i}) = 1
            /\ calls[i].pc = "done"
                 => (calls[i].result.status = "fulfilled"
                       <=> calls[i].outcome.status = "ok")

\* a reset has finished before any initialize, and another call shows one
\* finishing after a completed initialize
C8_Witness ==
  \E i, j \in CallIds :
    /\ i < j
    /\ calls[i].op = "initialize" /\ calls[i].result.status = "fulfilled"
    /\ calls[j].op = "hardReset" /\ calls[j].pc = "done"
    /\ Len(chipLog) = 1

\* ---- C9 -------------------------------------------------------------------
\* C9: flashData(data) issues flash_data(data, 0x10000, true), and every offset
\* and compress value the caller supplies reaches the chip unmodified, together
\* with the data.
C9_DefaultsAndPassThrough ==
  \A i \in CallIds :
    calls[i].op = "flashData"
      => /\ Cardinality(CommandsOf(i, "flash_data")) = 1
         /\ \A k \in CommandsOf(i, "flash_data") :
              LET a == calls[i].args
                  sent == chipLog[k].args
              IN  /\ Len(sent) = 3
                  /\ sent[1] = a[1]
                  /\ sent[2] = IF Len(a) >= 2 THEN a[2] ELSE 65536
                  /\ sent[3] = IF Len(a) >= 3 THEN a[3] ELSE TRUE

\* both a call with data alone and a call with compress = false have been made
C9_Witness ==
  /\ \E i \in CallIds :
       /\ calls[i].op = "flashData" /\ Len(calls[i].args) = 1
       /\ Len(calls[i].args[1]) > 0
       /\ CommandsOf(i, "flash_data") # {}
  /\ \E j \in CallIds :
       /\ calls[j].op = "flashData" /\ Len(calls[j].args) = 3
       /\ calls[j].args[3] = FALSE
       /\ CommandsOf(j, "flash_data") # {}

\* ---- C10 ------------------------------------------------------------------
\* C10: the loader's port, transport and chip never change after construction,
\* the chip and every HardReset are bound to that one transport, every command
\* goes to that chip, each initialize() invokes sync exactly once and a
\* successful initialize() returns that chip.
C10_Bound ==
  /\ transport.id = "transport#1"
  /\ transport.port = port
  /\ chip.id = "chip#1"
  /\ chip.transport = transport.id
  /\ \A r \in ResetIds : resetLog[r].transport = transport.id
  /\ \A k \in LogIds : chipLog[k].chip = chip.id
  /\ \A i \in CallIds :
       calls[i].op = "initialize"
         => /\ Cardinality(CommandsOf(i, "sync")) = 1
            /\ calls[i].result.status = "fulfilled" => calls[i].result.value = chip.id

C10_ConstructorObjectsKept ==
  /\ []C10_Bound
  /\ [][port' = port /\ transport' = transport /\ chip' = chip]_vars

\* a successful initialize and a failed hardReset have both finished
C10_Witness ==
  /\ \E i \in CallIds :
       calls[i].op = "initialize" /\ calls[i].result.status = "fulfilled"
  /\ \E j \in CallIds :
       calls[j].op = "hardReset" /\ calls[j].result.status = "rejected"

====
